---- MODULE Spec2Model ----
(***************************************************************************)
(* Spaced-repetition scheduler of QIRAT-AI (memorization_aid.py) over the  *)
(* user_memorization table declared in auth_system.py, and the pitch       *)
(* scorer, aligner, segmenter (enhanced_pitch_analysis.py,                 *)
(* analyze_pitch.py) and Tajweed rule engine (tajweed_rules.py).           *)
(*                                                                         *)
(* Ease factors are Python floats in the source; here they are kept in     *)
(* exact hundredths (2.5 is 250), so int(interval * ease_factor) is the     *)
(* integer quotient (interval * ef) \div 100.  Timestamps are isoformat    *)
(* strings in the source; here a timestamp is the pair <<day, tick>> and   *)
(* string order is the lexicographic order of the pair.                    *)
(***************************************************************************)
EXTENDS Integers, Sequences, FiniteSets, TLC

VARIABLES store, now, proc, scenario, due, dueUser, pitch, audio, tajweed,
          users, reset_tokens, session, lastPassword

vars ==
    <<store, now, proc, scenario, due, dueUser, pitch, audio, tajweed,
      users, reset_tokens, session, lastPassword>>

\* the scheduler's variables, those of the analysis functions and those of
\* the account system; lastPassword is a history variable: the password most
\* recently stored for each username
schedVars == <<store, now, proc, scenario, due, dueUser>>
analysisVars == <<pitch, audio, tajweed>>
authVars == <<users, reset_tokens, session, lastPassword>>

-----------------------------------------------------------------------------
(* Bounds *)

MaxDay == 1
TicksPerDay == 2
MaxEf == 280
MaxInterval == 6
MaxReps == 2
MaxStreak == 8
MaxRows == 3

Procs == {"p1", "p2"}
Keys == {<<1, 1, 1>>, <<1, 1, 2>>, <<2, 1, 1>>}
Users == {k[1] : k \in Keys}
TrackedKey == <<1, 1, 1>>
Qualities == {0, 2, 5, 6}
AllQualities == 0..6

\* no analysis request in progress
PitchIdle == [pc |-> "idle"]
AudioIdle == [pc |-> "idle"]
TajweedIdle == [pc |-> "idle"]

AnalysisIdle ==
    /\ pitch = PitchIdle
    /\ audio = AudioIdle
    /\ tajweed = TajweedIdle

\* no account, no reset token, no account call in progress
IdleSession ==
    [pc |-> "idle", op |-> "none", username |-> "", email |-> "",
     password |-> "", token |-> 0, user_id |-> 0, ok |-> FALSE]

Usernames == {"u1", "u2"}

AuthIdle ==
    /\ users = <<>>
    /\ reset_tokens = <<>>
    /\ session = [p \in Procs |-> IdleSession]
    /\ lastPassword = [u \in Usernames |-> ""]

-----------------------------------------------------------------------------
(* SQL values *)

Null == 0 - 1
NullTs == <<>>

Timestamps == {<<d, t>> : d \in 0..MaxDay, t \in 0..(TicksPerDay - 1)}

\* DATE(ts): the date part of an ISO timestamp
Date(ts) == ts[1]

\* datetime + timedelta(days=n)
AddDays(ts, n) == <<ts[1] + n, ts[2]>>

\* order of column values under ORDER BY ... ASC: NULL before every value
TsLess(a, b) ==
    IF a = NullTs THEN b # NullTs
    ELSE IF b = NullTs THEN FALSE
    ELSE a[1] < b[1] \/ (a[1] = b[1] /\ a[2] < b[2])

\* the unique column sets user_memorization declares: its primary key only
UniqueConstraints == {<<"id">>}

\* the conflict target of the upsert in record_review
ConflictTarget == <<"user_id", "surah", "ayah">>

Max(a, b) == IF a >= b THEN a ELSE b

-----------------------------------------------------------------------------
(* _sm2 *)

MinEf == 130
InitialEf == 250

\* variant: the intervals of the first and the second passed review swapped
sm2_interval_swapped(ease_factor, interval, repetitions, quality) ==
    IF quality < 3 THEN 1
    ELSE IF repetitions = 0 THEN 6
    ELSE IF repetitions = 1 THEN 1
    ELSE (interval * ease_factor) \div 100

sm2_interval(ease_factor, interval, repetitions, quality) ==
    IF quality < 3 THEN 1
    ELSE IF repetitions = 0 THEN 1
    ELSE IF repetitions = 1 THEN 6
    ELSE (interval * ease_factor) \div 100

sm2_repetitions(repetitions, quality) ==
    IF quality < 3 THEN 0 ELSE repetitions + 1

\* variant: a failed review (quality < 3) leaves the ease factor alone
sm2_ease_factor_passed_only(ease_factor, quality) ==
    IF quality < 3 THEN ease_factor
    ELSE Max(MinEf, ease_factor + 10 - (5 - quality) * (8 + (5 - quality) * 2))

sm2_ease_factor(ease_factor, quality) ==
    Max(MinEf, ease_factor + 10 - (5 - quality) * (8 + (5 - quality) * 2))

_sm2(ease_factor, interval, repetitions, quality) ==
    [interval |-> sm2_interval(ease_factor, interval, repetitions, quality),
     ease_factor |-> sm2_ease_factor(ease_factor, quality),
     repetitions |-> sm2_repetitions(repetitions, quality)]

\* variant: the streak continues from quality 3, the threshold _sm2 uses
review_streak_from_3(streak, quality) ==
    IF quality >= 3 THEN (IF streak = Null THEN 0 ELSE streak) + 1 ELSE 0

\* streak and status, record_review lines 62-67; (streak or 0) maps NULL to 0
review_streak(streak, quality) ==
    IF quality >= 4 THEN (IF streak = Null THEN 0 ELSE streak) + 1 ELSE 0

MasteredStreak == 7

review_status(streak, quality) ==
    IF quality >= 4
    THEN (IF review_streak(streak, quality) >= MasteredStreak
          THEN "mastered" ELSE "learning")
    ELSE "learning"

-----------------------------------------------------------------------------
(* user_memorization table: a sequence of rows in rowid order *)

KeyOf(row) == <<row.user_id, row.surah, row.ayah>>

RowsOf(table, key) == {i \in 1..Len(table) : KeyOf(table[i]) = key}

FirstRow(table, key) ==
    CHOOSE i \in RowsOf(table, key) : \A j \in RowsOf(table, key) : i <= j

IdleProc ==
    [pc |-> "idle", user_id |-> 0, surah |-> 0, ayah |-> 0, quality |-> 0,
     interval |-> 0, ease_factor |-> 0, repetitions |-> 0, streak |-> 0,
     new_interval |-> 0, new_ef |-> 0, new_reps |-> 0, new_streak |-> 0,
     status |-> "",
     next_review |-> NullTs, last_reviewed |-> NullTs, outcome |-> "none"]

ProcKey(p) == <<proc[p].user_id, proc[p].surah, proc[p].ayah>>

InCall(p) == proc[p].pc \in {"selected", "computed"}

-----------------------------------------------------------------------------
(* record_review *)

\* lines 48-58: connect, SELECT the row of the key, fetchone, defaults
RecordReview_Select(p, key, quality) ==
    /\ proc[p].pc = "idle"
    /\ LET found == RowsOf(store, key) # {}
           row == store[FirstRow(store, key)]
       IN proc' = [proc EXCEPT ![p] =
              [IdleProc EXCEPT
                  !.pc = "selected",
                  !.user_id = key[1], !.surah = key[2], !.ayah = key[3],
                  !.quality = quality,
                  !.interval = IF found THEN row.interval ELSE 0,
                  !.ease_factor = IF found THEN row.ease_factor ELSE InitialEf,
                  !.repetitions = IF found THEN row.repetitions ELSE 0,
                  !.streak = IF found THEN row.streak ELSE 0]]
    /\ scenario' = IF key = TrackedKey
                      /\ \E o \in Procs \ {p} : InCall(o) /\ ProcKey(o) = key
                   THEN 9 ELSE scenario
    /\ UNCHANGED <<store, now, due, dueUser>>
    /\ UNCHANGED analysisVars
    /\ UNCHANGED authVars

\* lines 59-67: _sm2, next_review, last_reviewed, streak, status; the source
\* reassigns streak, here the row's value stays in streak and the new value
\* is new_streak
RecordReview_Compute(p) ==
    /\ proc[p].pc = "selected"
    /\ LET r == proc[p]
           s == _sm2(r.ease_factor, r.interval, r.repetitions, r.quality)
       IN proc' = [proc EXCEPT ![p] =
              [r EXCEPT
                  !.pc = "computed",
                  !.new_interval = s.interval,
                  !.new_ef = s.ease_factor,
                  !.new_reps = s.repetitions,
                  !.next_review = AddDays(now, s.interval),
                  !.last_reviewed = now,
                  !.new_streak = review_streak(r.streak, r.quality),
                  !.status = review_status(r.streak, r.quality)]]
    /\ UNCHANGED <<store, now, scenario, due, dueUser>>
    /\ UNCHANGED analysisVars
    /\ UNCHANGED authVars

NewRow(r) ==
    [user_id |-> r.user_id, surah |-> r.surah, ayah |-> r.ayah,
     last_reviewed |-> r.last_reviewed, next_review |-> r.next_review,
     interval |-> r.new_interval, ease_factor |-> r.new_ef,
     repetitions |-> r.new_reps, status |-> r.status, streak |-> r.new_streak]

\* INSERT ... ON CONFLICT(user_id, surah, ayah) DO UPDATE SET ...
Upsert(table, r) ==
    IF RowsOf(table, KeyOf(NewRow(r))) = {}
    THEN Append(table, NewRow(r))
    ELSE [table EXCEPT ![FirstRow(table, KeyOf(NewRow(r)))] = NewRow(r)]

\* the statement is rejected when its conflict target names no PRIMARY KEY
\* or UNIQUE constraint of the table
UpsertAccepted == ConflictTarget \in UniqueConstraints

ScenarioStep(s, key, quality, overlapped) ==
    IF key # TrackedKey THEN s
    ELSE IF overlapped THEN 9
    ELSE IF s < 7 /\ quality = 5 THEN s + 1
    ELSE IF s = 7 /\ quality = 2 THEN 8
    ELSE 9

\* lines 68-82: execute the upsert, commit, close, return the result
RecordReview_Execute(p) ==
    /\ proc[p].pc = "computed"
    /\ IF UpsertAccepted
       THEN /\ store' = Upsert(store, proc[p])
            /\ proc' = [proc EXCEPT ![p].pc = "done", ![p].outcome = "returned"]
       ELSE /\ store' = store
            /\ proc' = [proc EXCEPT ![p].pc = "done",
                                    ![p].outcome = "OperationalError"]
    /\ scenario' = ScenarioStep(scenario, ProcKey(p), proc[p].quality,
                       \E o \in Procs \ {p} : InCall(o) /\ ProcKey(o) = ProcKey(p))
    /\ UNCHANGED <<now, due, dueUser>>
    /\ UNCHANGED analysisVars
    /\ UNCHANGED authVars

\* the caller takes the result (or the exception) and may call again
RecordReview_Finish(p) ==
    /\ proc[p].pc = "done"
    /\ proc' = [proc EXCEPT ![p] = IdleProc]
    /\ UNCHANGED <<store, now, scenario, due, dueUser>>
    /\ UNCHANGED analysisVars
    /\ UNCHANGED authVars

-----------------------------------------------------------------------------
(* get_due_ayahs *)

\* variant: a verse becomes due only the day after its review date
IsDue_strict(row, user_id, today) ==
    /\ row.user_id = user_id
    /\ (row.next_review = NullTs \/ Date(row.next_review) < today)

IsDue(row, user_id, today) ==
    /\ row.user_id = user_id
    /\ (row.next_review = NullTs \/ Date(row.next_review) <= today)

\* the selected columns of a row
DueColumns(row) == <<row.surah, row.ayah, row.next_review, row.status>>

\* ORDER BY next_review ASC: insert each selected row, in rowid order, after
\* the rows already placed whose next_review is not greater
RECURSIVE InsertSorted(_, _)
InsertSorted(sorted, row) ==
    IF sorted = <<>> THEN <<row>>
    ELSE IF TsLess(row.next_review, Head(sorted).next_review)
         THEN <<row>> \o sorted
         ELSE <<Head(sorted)>> \o InsertSorted(Tail(sorted), row)

RECURSIVE OrderByNextReview(_, _)
OrderByNextReview(rows, sorted) ==
    IF rows = <<>> THEN sorted
    ELSE OrderByNextReview(Tail(rows), InsertSorted(sorted, Head(rows)))

get_due_ayahs(table, user_id, today) ==
    LET selected == SelectSeq(table, LAMBDA row : IsDue(row, user_id, today))
        ordered == OrderByNextReview(selected, <<>>)
    IN [i \in 1..Len(ordered) |-> DueColumns(ordered[i])]

GetDueAyahs(u) ==
    /\ due' = get_due_ayahs(store, u, Date(now))
    /\ dueUser' = u
    /\ UNCHANGED <<store, now, proc, scenario>>
    /\ UNCHANGED analysisVars
    /\ UNCHANGED authVars

-----------------------------------------------------------------------------
(* clock *)

Tick ==
    /\ \/ /\ now[2] + 1 < TicksPerDay
          /\ now' = <<now[1], now[2] + 1>>
       \/ /\ now[2] + 1 = TicksPerDay
          /\ now[1] < MaxDay
          /\ now' = <<now[1] + 1, 0>>
    /\ UNCHANGED <<store, proc, scenario, due, dueUser>>
    /\ UNCHANGED analysisVars
    /\ UNCHANGED authVars

-----------------------------------------------------------------------------
(* the program: the table as init_database creates it, two callers *)

Init ==
    /\ store = <<>>
    /\ now = <<0, 0>>
    /\ proc = [p \in Procs |-> IdleProc]
    /\ scenario = 0
    /\ due = <<>>
    /\ dueUser = 0
    /\ AuthIdle
    /\ AnalysisIdle

Next ==
    \/ \E p \in Procs, key \in Keys, q \in Qualities : RecordReview_Select(p, key, q)
    \/ \E p \in Procs : RecordReview_Compute(p)
    \/ \E p \in Procs : RecordReview_Execute(p)
    \/ \E p \in Procs : RecordReview_Finish(p)
    \/ \E u \in Users : GetDueAyahs(u)
    \/ Tick

Spec == Init /\ [][Next]_vars

-----------------------------------------------------------------------------
(* review computation on its own: any stored row and any quality *)

EfValues == {e \in MinEf..MaxEf : e % 2 = 0}
StreakValues == {Null} \cup (0..MaxStreak)

InitSm2 ==
    /\ store = <<>>
    /\ now = <<0, 0>>
    /\ scenario = 0
    /\ due = <<>>
    /\ dueUser = 0
    /\ AuthIdle
    /\ AnalysisIdle
    /\ \E q \in AllQualities, i \in 0..MaxInterval, e \in EfValues,
          n \in 0..MaxReps, s \in StreakValues :
          proc = [p \in Procs |->
                    IF p = "p1"
                    THEN [IdleProc EXCEPT
                             !.pc = "selected", !.user_id = 1, !.surah = 1,
                             !.ayah = 1, !.quality = q, !.interval = i,
                             !.ease_factor = e, !.repetitions = n, !.streak = s]
                    ELSE IdleProc]

NextSm2 == \E p \in Procs : RecordReview_Compute(p)

SpecSm2 == InitSm2 /\ [][NextSm2]_vars

-----------------------------------------------------------------------------
(* successive reviews of one verse: each review starts from the interval,  *)
(* ease factor, repetitions and streak the review before it computed       *)

MaxChainInterval == 40

ReviewQualities == 1..5

ReviewNext(p, quality) ==
    /\ proc[p].pc = "computed"
    /\ proc[p].new_interval <= MaxChainInterval
    /\ proc' = [proc EXCEPT ![p] =
           [IdleProc EXCEPT
               !.pc = "selected",
               !.user_id = proc[p].user_id, !.surah = proc[p].surah,
               !.ayah = proc[p].ayah,
               !.quality = quality,
               !.interval = proc[p].new_interval,
               !.ease_factor = proc[p].new_ef,
               !.repetitions = proc[p].new_reps,
               !.streak = proc[p].new_streak]]
    /\ UNCHANGED <<store, now, scenario, due, dueUser>>
    /\ UNCHANGED analysisVars
    /\ UNCHANGED authVars

InitChain ==
    /\ store = <<>>
    /\ now = <<0, 0>>
    /\ scenario = 0
    /\ due = <<>>
    /\ dueUser = 0
    /\ AuthIdle
    /\ AnalysisIdle
    /\ \E q \in ReviewQualities :
          proc = [p \in Procs |->
                    IF p = "p1"
                    THEN [IdleProc EXCEPT
                             !.pc = "selected", !.user_id = 1, !.surah = 1,
                             !.ayah = 1, !.quality = q, !.interval = 0,
                             !.ease_factor = InitialEf, !.repetitions = 0,
                             !.streak = 0]
                    ELSE IdleProc]

NextChain ==
    \/ \E p \in Procs : RecordReview_Compute(p)
    \/ \E p \in Procs, q \in ReviewQualities : ReviewNext(p, q)

SpecChain == InitChain /\ [][NextChain]_vars

-----------------------------------------------------------------------------
(* the due query on its own: any table contents and any date *)

StoredRow(u, a, nr, st) ==
    [user_id |-> u, surah |-> 1, ayah |-> a,
     last_reviewed |-> NullTs, next_review |-> nr,
     interval |-> 1, ease_factor |-> InitialEf,
     repetitions |-> 1, status |-> st, streak |-> 0]

\* the values a row at position n of the table may hold: verse n of any user,
\* next_review NULL or any timestamp
RowValues(n) ==
    {StoredRow(u, n, nr, "learning") : u \in Users, nr \in Timestamps \cup {NullTs}}

RECURSIVE Tables(_)
Tables(n) ==
    IF n = 0 THEN {<<>>}
    ELSE LET shorter == Tables(n - 1)
         IN shorter \cup {Append(t, r) : t \in {s \in shorter : Len(s) = n - 1},
                                         r \in RowValues(n)}

InitDue ==
    /\ store \in Tables(MaxRows)
    /\ now \in {<<d, 0>> : d \in 0..MaxDay}
    /\ proc = [p \in Procs |-> IdleProc]
    /\ scenario = 0
    /\ due = <<>>
    /\ dueUser = 0
    /\ AuthIdle
    /\ AnalysisIdle

NextDue == \E u \in Users : GetDueAyahs(u)

SpecDue == InitDue /\ [][NextDue]_vars

-----------------------------------------------------------------------------
(* Pitch-difference scorer.  A contour is a sequence of frequencies in Hz *)
(* (whole numbers here), a value <= 0 is an unvoiced frame.  A quotient   *)
(* the source computes in floats is kept as the pair <<numerator,         *)
(* denominator>>.  The semitone, cents and note-name fields of a          *)
(* difference, and the cents, std and median statistics, are not modelled. *)

MaxFrames == 3

Min(a, b) == IF a <= b THEN a ELSE b
Abs(x) == IF x < 0 THEN 0 - x ELSE x

FracLess(a, b) == a[1] * b[2] < b[1] * a[2]
FracEq(a, b) == a[1] * b[2] = b[1] * a[2]

\* the threshold calculate_segment_statistics compares against
StatsThresholdHz == 50

\* variant: a deviation equal to the threshold counts as significant
Significant_inclusive(freq_diff, threshold) == Abs(freq_diff) >= threshold

\* abs(freq_diff) > threshold
Significant(freq_diff, threshold) == Abs(freq_diff) > threshold

\* variant: only a frequency of exactly 0 is unvoiced
Voiced_nonzero(user_freq, ref_freq) == user_freq # 0 /\ ref_freq # 0

\* user_freq > 0 and ref_freq > 0
Voiced(user_freq, ref_freq) == user_freq > 0 /\ ref_freq > 0

\* the loop of analyze_segment_pitch_differences from frame i (1-based here,
\* frame i is index i - 1 of the source)
RECURSIVE SegmentDifferencesFrom(_, _, _, _, _, _, _)
SegmentDifferencesFrom(i, user_pitch, ref_pitch, hop_length, sr, threshold, segment_start_time) ==
    IF i > Min(Len(user_pitch), Len(ref_pitch)) THEN <<>>
    ELSE LET user_freq == user_pitch[i]
             ref_freq == ref_pitch[i]
             freq_diff == user_freq - ref_freq
             rest == SegmentDifferencesFrom(i + 1, user_pitch, ref_pitch,
                         hop_length, sr, threshold, segment_start_time)
         IN IF Voiced(user_freq, ref_freq) /\ Significant(freq_diff, threshold)
            THEN <<[timestamp |-> <<segment_start_time * sr
                                      + (i - 1) * hop_length, sr>>,
                    segment_time |-> <<(i - 1) * hop_length, sr>>,
                    user_freq |-> user_freq,
                    ref_freq |-> ref_freq,
                    freq_diff |-> freq_diff,
                    direction |-> IF freq_diff > 0 THEN "higher" ELSE "lower"]>>
                 \o rest
            ELSE rest

analyze_segment_pitch_differences(user_pitch, ref_pitch, hop_length, sr, threshold, segment_start_time) ==
    SegmentDifferencesFrom(1, user_pitch, ref_pitch, hop_length, sr, threshold,
                           segment_start_time)

\* the loop of analyze_pitch_differences (analyze_pitch.py) from frame i
RECURSIVE PitchDifferencesFrom(_, _, _, _, _, _)
PitchDifferencesFrom(i, user_pitch, ref_pitch, hop_length, sr, threshold) ==
    IF i > Min(Len(user_pitch), Len(ref_pitch)) THEN <<>>
    ELSE LET user_freq == user_pitch[i]
             ref_freq == ref_pitch[i]
             freq_diff == user_freq - ref_freq
             rest == PitchDifferencesFrom(i + 1, user_pitch, ref_pitch,
                                          hop_length, sr, threshold)
         IN IF Voiced(user_freq, ref_freq) /\ Significant(freq_diff, threshold)
            THEN <<[timestamp |-> <<(i - 1) * hop_length, sr>>,
                    user_freq |-> user_freq,
                    ref_freq |-> ref_freq,
                    freq_diff |-> freq_diff]>> \o rest
            ELSE rest

analyze_pitch_differences(user_pitch, ref_pitch, hop_length, sr, threshold) ==
    PitchDifferencesFrom(1, user_pitch, ref_pitch, hop_length, sr, threshold)

\* lines 513-530: the frequency differences of the voiced frames and the
\* counts of positive and negative ones
RECURSIVE VoicedDifferences(_, _, _)
VoicedDifferences(i, user_pitch, ref_pitch) ==
    IF i > Min(Len(user_pitch), Len(ref_pitch)) THEN <<>>
    ELSE IF Voiced(user_pitch[i], ref_pitch[i])
         THEN <<user_pitch[i] - ref_pitch[i]>>
                 \o VoicedDifferences(i + 1, user_pitch, ref_pitch)
         ELSE VoicedDifferences(i + 1, user_pitch, ref_pitch)

RECURSIVE SumAbs(_)
SumAbs(seq) == IF seq = <<>> THEN 0 ELSE Abs(Head(seq)) + SumAbs(Tail(seq))

RECURSIVE MaxAbs(_)
MaxAbs(seq) == IF seq = <<>> THEN 0 ELSE Max(Abs(Head(seq)), MaxAbs(Tail(seq)))

\* np.sum(differences > 0)
CountAbove(seq) == Cardinality({i \in 1..Len(seq) : seq[i] > 0})

\* np.sum(differences < 0)
CountBelow(seq) == Cardinality({i \in 1..Len(seq) : seq[i] < 0})

\* variant: a frame counts as accurate only strictly below the threshold
WithinStatsThreshold_strict(d) == Abs(d) < StatsThresholdHz

\* abs_differences <= 50
WithinStatsThreshold(d) == Abs(d) <= StatsThresholdHz

\* np.sum(abs_differences <= 50)
CountWithinStatsThreshold(seq) ==
    Cardinality({i \in 1..Len(seq) : WithinStatsThreshold(seq[i])})

EmptyStatistics(total_frames) ==
    [total_frames |-> total_frames,
     pitch_differences_count |-> 0,
     average_deviation_hz |-> <<0, 1>>,
     max_deviation_hz |-> 0,
     high_pitch_count |-> 0,
     low_pitch_count |-> 0,
     accuracy_percentage |-> <<100, 1>>]

calculate_segment_statistics(user_pitch, ref_pitch, hop_length, sr) ==
    LET min_len == Min(Len(user_pitch), Len(ref_pitch))
        differences == VoicedDifferences(1, user_pitch, ref_pitch)
    IN IF min_len = 0 THEN EmptyStatistics(0)
       ELSE IF differences = <<>> THEN EmptyStatistics(min_len)
       ELSE [total_frames |-> min_len,
             valid_frames |-> Len(differences),
             pitch_differences_count |-> Len(differences),
             average_deviation_hz |-> <<SumAbs(differences), Len(differences)>>,
             max_deviation_hz |-> MaxAbs(differences),
             high_pitch_count |-> CountAbove(differences),
             low_pitch_count |-> CountBelow(differences),
             accuracy_percentage |->
                 <<CountWithinStatsThreshold(differences) * 100,
                   Len(differences)>>]

\* a pair of contours handed to the scorer
PitchInput(user_pitch, ref_pitch, hop_length, sr, threshold) ==
    [pc |-> "input", user_pitch |-> user_pitch, ref_pitch |-> ref_pitch,
     hop_length |-> hop_length, sr |-> sr, threshold |-> threshold]

\* analyze_5second_segments lines 428-433 for one segment: the differences
\* and the statistics of the segment's two contours
AnalyzeSegment ==
    /\ pitch.pc = "input"
    /\ pitch' = [pc |-> "segment",
                 user_pitch |-> pitch.user_pitch, ref_pitch |-> pitch.ref_pitch,
                 hop_length |-> pitch.hop_length, sr |-> pitch.sr,
                 threshold |-> pitch.threshold,
                 differences |->
                     analyze_segment_pitch_differences(pitch.user_pitch,
                         pitch.ref_pitch, pitch.hop_length, pitch.sr,
                         pitch.threshold, 0),
                 statistics |->
                     calculate_segment_statistics(pitch.user_pitch,
                         pitch.ref_pitch, pitch.hop_length, pitch.sr)]
    /\ UNCHANGED <<audio, tajweed>>
    /\ UNCHANGED schedVars
    /\ UNCHANGED authVars

\* generate_detailed_feedback: one feedback item per difference that
\* analyze_pitch_differences reports
GenerateDetailedFeedback ==
    /\ pitch.pc = "input"
    /\ pitch' = [pc |-> "feedback",
                 user_pitch |-> pitch.user_pitch, ref_pitch |-> pitch.ref_pitch,
                 hop_length |-> pitch.hop_length, sr |-> pitch.sr,
                 threshold |-> pitch.threshold,
                 differences |->
                     analyze_pitch_differences(pitch.user_pitch,
                         pitch.ref_pitch, pitch.hop_length, pitch.sr,
                         pitch.threshold)]
    /\ UNCHANGED <<audio, tajweed>>
    /\ UNCHANGED schedVars
    /\ UNCHANGED authVars

UserFreqs == {0 - 1, 0, 430, 440, 450, 490, 500}
RefFreqs == {0, 440}
Thresholds == {5, 10, 50}
HopLength == 512
SampleRate == 44100

RECURSIVE SeqsUpTo(_, _)
SeqsUpTo(S, n) ==
    IF n = 0 THEN {<<>>}
    ELSE LET shorter == SeqsUpTo(S, n - 1)
         IN shorter \cup {Append(t, x) : t \in {q \in shorter : Len(q) = n - 1},
                                         x \in S}

\* the contours of the example in feedback.py
ExampleUserPitch == <<440, 450, 430, 460, 440>>
ExampleRefPitch == <<440, 440, 440, 440, 440>>
ExampleThreshold == 10

IsExample ==
    /\ pitch.user_pitch = ExampleUserPitch
    /\ pitch.ref_pitch = ExampleRefPitch
    /\ pitch.threshold = ExampleThreshold

InitPitch ==
    /\ store = <<>>
    /\ now = <<0, 0>>
    /\ proc = [p \in Procs |-> IdleProc]
    /\ scenario = 0
    /\ due = <<>>
    /\ dueUser = 0
    /\ AuthIdle
    /\ audio = AudioIdle
    /\ tajweed = TajweedIdle
    /\ \/ \E u \in SeqsUpTo(UserFreqs, MaxFrames),
             r \in SeqsUpTo(RefFreqs, MaxFrames), t \in Thresholds :
             pitch = PitchInput(u, r, HopLength, SampleRate, t)
       \/ pitch = PitchInput(ExampleUserPitch, ExampleRefPitch, HopLength,
                             SampleRate, ExampleThreshold)

NextPitch == AnalyzeSegment \/ GenerateDetailedFeedback

SpecPitch == InitPitch /\ [][NextPitch]_vars

-----------------------------------------------------------------------------
(* Silence-onset aligner.  A signal is a sequence of samples; amplitudes   *)
(* and the threshold are in hundredths of full scale (0.02 is 2).          *)

MaxSamples == 4

Samples == {0, 2, 0 - 3}
DefaultSilenceThreshold == 2

\* variant: a sample equal to the threshold already counts as sound
AboveThreshold_inclusive(y, threshold) ==
    [i \in 1..Len(y) |-> Abs(y[i]) >= threshold]

\* np.abs(y) > threshold
AboveThreshold(y, threshold) == [i \in 1..Len(y) |-> Abs(y[i]) > threshold]

\* np.argmax of a non-empty boolean array: the (0-based) index of the first
\* occurrence of its largest value
argmax(b) ==
    LET top == \E i \in 1..Len(b) : b[i]
    IN (CHOOSE i \in 1..Len(b) :
           /\ b[i] = top
           /\ \A j \in 1..(i - 1) : b[j] # top) - 1

\* variant: the reference is cut at the user's length without the offset
SliceFrom_no_offset(y, offset, length) == SubSeq(y, 1, Min(length, Len(y)))

\* y[offset:offset+length]
SliceFrom(y, offset, length) ==
    SubSeq(y, Min(offset, Len(y)) + 1, Min(offset + length, Len(y)))

\* lines 150-160 on loaded signals; np.argmax raises ValueError on an
\* empty array
align_by_first_word(user_y, ref_y, threshold) ==
    IF Len(user_y) = 0 \/ Len(ref_y) = 0
    THEN [error |-> "ValueError"]
    ELSE LET user_start == argmax(AboveThreshold(user_y, threshold))
             ref_start == argmax(AboveThreshold(ref_y, threshold))
             offset == Max(0, ref_start - user_start)
         IN [error |-> "none",
             user_start |-> user_start,
             ref_start |-> ref_start,
             offset |-> offset,
             aligned_ref_y |-> SliceFrom(ref_y, offset, Len(user_y))]

AlignFirst ==
    /\ audio.pc = "loaded"
    /\ LET r == align_by_first_word(audio.user_y, audio.ref_y, audio.threshold)
       IN audio' = [pc |-> IF r.error = "none" THEN "aligned" ELSE "error",
                    user_y |-> audio.user_y, ref_y |-> audio.ref_y,
                    threshold |-> audio.threshold, first |-> r]
    /\ UNCHANGED <<pitch, tajweed>>
    /\ UNCHANGED schedVars
    /\ UNCHANGED authVars

\* the aligned pair is aligned again with the same threshold
AlignAgain ==
    /\ audio.pc = "aligned"
    /\ LET r == align_by_first_word(audio.user_y, audio.first.aligned_ref_y,
                                    audio.threshold)
       IN audio' = [pc |-> IF r.error = "none" THEN "realigned" ELSE "error",
                    user_y |-> audio.user_y, ref_y |-> audio.ref_y,
                    threshold |-> audio.threshold, first |-> audio.first,
                    second |-> r]
    /\ UNCHANGED <<pitch, tajweed>>
    /\ UNCHANGED schedVars
    /\ UNCHANGED authVars

InitAlign ==
    /\ store = <<>>
    /\ now = <<0, 0>>
    /\ proc = [p \in Procs |-> IdleProc]
    /\ scenario = 0
    /\ due = <<>>
    /\ dueUser = 0
    /\ AuthIdle
    /\ pitch = PitchIdle
    /\ tajweed = TajweedIdle
    /\ \E u \in SeqsUpTo(Samples, MaxSamples), r \in SeqsUpTo(Samples, MaxSamples) :
          audio = [pc |-> "loaded", user_y |-> u, ref_y |-> r,
                   threshold |-> DefaultSilenceThreshold]

NextAlign == AlignFirst \/ AlignAgain

SpecAlign == InitAlign /\ [][NextAlign]_vars

-----------------------------------------------------------------------------
(* Fixed-interval segmenter.  The interval is IntervalNum / IntervalDen     *)
(* seconds; the samples of the signal are numbered 1..L.                   *)

MaxSignalLen == 8
MaxSr == 4
MaxIntervalNum == 4
IntervalDen == 2

\* int(interval * sr)
samples_per_interval(interval_num, sr) == (interval_num * sr) \div IntervalDen

\* range(0, total_len, step) then y[start:min(start + step, total_len)]
RECURSIVE SegmentsFrom(_, _, _)
SegmentsFrom(y, start, step) ==
    IF start >= Len(y) THEN <<>>
    ELSE <<SubSeq(y, start + 1, Min(start + step, Len(y)))>>
            \o SegmentsFrom(y, start + step, step)

\* range() raises ValueError when its step is 0
segment_audio(y, sr, interval_num) ==
    IF samples_per_interval(interval_num, sr) = 0
    THEN [error |-> "ValueError", segments |-> <<>>]
    ELSE [error |-> "none",
          segments |-> SegmentsFrom(y, 0, samples_per_interval(interval_num, sr))]

SegmentAudio ==
    /\ audio.pc = "signal"
    /\ LET r == segment_audio(audio.y, audio.sr, audio.interval_num)
       IN audio' = [pc |-> IF r.error = "none" THEN "segmented" ELSE "error",
                    y |-> audio.y, sr |-> audio.sr,
                    interval_num |-> audio.interval_num,
                    segments |-> r.segments]
    /\ UNCHANGED <<pitch, tajweed>>
    /\ UNCHANGED schedVars
    /\ UNCHANGED authVars

InitSegment ==
    /\ store = <<>>
    /\ now = <<0, 0>>
    /\ proc = [p \in Procs |-> IdleProc]
    /\ scenario = 0
    /\ due = <<>>
    /\ dueUser = 0
    /\ AuthIdle
    /\ pitch = PitchIdle
    /\ tajweed = TajweedIdle
    /\ \E L \in 0..MaxSignalLen, sr \in 1..MaxSr, n \in 1..MaxIntervalNum :
          audio = [pc |-> "signal", y |-> [i \in 1..L |-> i], sr |-> sr,
                   interval_num |-> n]

NextSegment == SegmentAudio

SpecSegment == InitSegment /\ [][NextSegment]_vars

-----------------------------------------------------------------------------
(* Tajweed rule engine.  A text is a sequence of characters; each Arabic    *)
(* character is written by its transliterated name.  A rule's trigger is a *)
(* set, empty for the rules whose trigger is None (both are falsy).        *)

MaxTextLen == 7

NunFollowersIkhfa ==
    {"ta", "tha", "jim", "dal", "dhal", "zay", "sin", "shin", "sad", "dad",
     "tah", "zah", "fa", "qaf", "kaf"}

ENHANCED_TAJWEED_RULES ==
    << [name |-> "Ghunnah", trigger |-> {"nun", "mim"},
        followed_by |-> {"ya", "waw", "mim", "nun"}, severity |-> "high"],
       [name |-> "Ikhfa", trigger |-> {"nun"},
        followed_by |-> NunFollowersIkhfa, severity |-> "medium"],
       [name |-> "Iqlab", trigger |-> {"nun"},
        followed_by |-> {"ba"}, severity |-> "high"],
       [name |-> "Idgham with Ghunnah", trigger |-> {"nun"},
        followed_by |-> {"ya", "nun", "mim", "waw"}, severity |-> "high"],
       [name |-> "Idgham without Ghunnah", trigger |-> {"nun"},
        followed_by |-> {"lam", "ra"}, severity |-> "high"],
       [name |-> "Qalqalah", trigger |-> {},
        followed_by |-> {"qaf", "tah", "ba", "jim", "dal"}, severity |-> "medium"],
       [name |-> "Madd Al-Muttasil", trigger |-> {"alif", "waw", "ya"},
        followed_by |-> {"hamza"}, severity |-> "high"],
       [name |-> "Madd Al-Munfasil", trigger |-> {"alif", "waw", "ya"},
        followed_by |-> {"hamza"}, severity |-> "low"],
       [name |-> "Waqf (Stopping)", trigger |-> {},
        followed_by |-> {}, severity |-> "medium"] >>

Whitespace == {"space"}

\* text.split(): the maximal runs of non-whitespace characters, in order
RECURSIVE SplitFrom(_, _, _)
SplitFrom(text, i, word) ==
    IF i > Len(text)
    THEN IF word = <<>> THEN <<>> ELSE <<word>>
    ELSE IF text[i] \in Whitespace
         THEN (IF word = <<>> THEN <<>> ELSE <<word>>)
                 \o SplitFrom(text, i + 1, <<>>)
         ELSE SplitFrom(text, i + 1, Append(word, text[i]))

\* variant: the text is taken as one word
split_one_word(text) == IF text = <<>> THEN <<>> ELSE <<text>>

split(text) == SplitFrom(text, 1, <<>>)

TajweedError(rule, w_idx, i) ==
    [rule |-> rule.name, word_index |-> w_idx, char_index |-> i,
     severity |-> rule.severity]

\* variant: a rule without trigger reports its letters at every position
CheckChar_any_position(rule, word, w_idx, i) ==
    IF rule.trigger # {} /\ word[i + 1] \in rule.trigger /\ i + 1 < Len(word)
    THEN IF word[i + 2] \in rule.followed_by
         THEN <<TajweedError(rule, w_idx, i)>>
         ELSE <<>>
    ELSE IF rule.trigger = {} /\ word[i + 1] \in rule.followed_by
         THEN <<TajweedError(rule, w_idx, i)>>
         ELSE <<>>

\* the body of the inner loop for character i (0-based) of the word
CheckChar(rule, word, w_idx, i) ==
    IF rule.trigger # {} /\ word[i + 1] \in rule.trigger /\ i + 1 < Len(word)
    THEN IF word[i + 2] \in rule.followed_by
         THEN <<TajweedError(rule, w_idx, i)>>
         ELSE <<>>
    ELSE IF rule.trigger = {} /\ word[i + 1] \in rule.followed_by
              /\ i = Len(word) - 1
         THEN <<TajweedError(rule, w_idx, i)>>
         ELSE <<>>

RECURSIVE CheckWordFrom(_, _, _, _)
CheckWordFrom(rule, word, w_idx, i) ==
    IF i >= Len(word) THEN <<>>
    ELSE CheckChar(rule, word, w_idx, i) \o CheckWordFrom(rule, word, w_idx, i + 1)

RECURSIVE CheckWordsFrom(_, _, _)
CheckWordsFrom(rule, words, w_idx) ==
    IF w_idx >= Len(words) THEN <<>>
    ELSE CheckWordFrom(rule, words[w_idx + 1], w_idx, 0)
            \o CheckWordsFrom(rule, words, w_idx + 1)

_check_rule(text, rule) == CheckWordsFrom(rule, split(text), 0)

\* variant: a low-severity error costs as much as a medium one
Deduction_low_as_medium(severity) ==
    IF severity = "high" THEN 10 ELSE 5

Deduction(severity) ==
    IF severity = "high" THEN 10
    ELSE IF severity = "medium" THEN 5
    ELSE 2

RECURSIVE Deduct(_, _)
Deduct(score, errors) ==
    IF errors = <<>> THEN score
    ELSE Deduct(score - Deduction(Head(errors).severity), Tail(errors))

\* the loop over the rules: errors.extend(rule_errors) and the deductions
RECURSIVE ValidateFrom(_, _, _, _)
ValidateFrom(text, r, errors, score) ==
    IF r > Len(ENHANCED_TAJWEED_RULES)
    THEN [errors |-> errors, score |-> score]
    ELSE LET rule_errors == _check_rule(text, ENHANCED_TAJWEED_RULES[r])
         IN ValidateFrom(text, r + 1, errors \o rule_errors,
                         Deduct(score, rule_errors))

validate_text(text) ==
    LET checked == ValidateFrom(text, 1, <<>>, 100)
    IN [score |-> Max(0, checked.score),
        errors |-> checked.errors,
        warnings |-> <<>>,
        total_rules_checked |-> Len(ENHANCED_TAJWEED_RULES)]

ValidateText ==
    /\ tajweed.pc = "text"
    /\ tajweed' = [pc |-> "validated", text |-> tajweed.text,
                   result |-> validate_text(tajweed.text)]
    /\ UNCHANGED <<pitch, audio>>
    /\ UNCHANGED schedVars
    /\ UNCHANGED authVars

Letters == {"nun", "ba", "dal", "space"}

\* the example text of the Iqlab rule, with its vowel marks
IqlabExample ==
    <<"mim", "kasra", "nun", "space", "ba", "fatha", "ayn", "sukun", "dal",
      "kasra">>

\* the example text of the Madd Al-Muttasil rule, with its vowel marks
MaddMuttasilExample == <<"jim", "fatha", "alif", "hamza", "fatha">>

\* the texts of the comprehensive test, with their vowel marks
IkhfaExample ==
    <<"mim", "kasra", "nun", "sukun", "space", "tha", "fatha", "mim", "fatha",
      "ra", "fatha", "ta_marbuta", "kasratan">>

IdghamGhunnahExample ==
    <<"mim", "fatha", "nun", "space", "ya", "fatha", "ayn", "sukun", "mim",
      "fatha", "lam", "sukun">>

IdghamNoGhunnahExample ==
    <<"mim", "kasra", "nun", "space", "ra", "fatha", "ba", "kasra", "shadda",
      "ha", "kasra", "mim", "sukun">>

QalqalahExample ==
    <<"ya", "fatha", "qaf", "sukun", "tah", "fatha", "ayn", "damma">>

WaqfExample == <<"kaf", "damma", "lam", "damma", "shadda">>

\* test_cases: each text with its expected_rules
TajweedTestCases ==
    << [text |-> IkhfaExample, expected_rules |-> {"Ikhfa"}],
       [text |-> IqlabExample, expected_rules |-> {"Iqlab"}],
       [text |-> IdghamGhunnahExample,
        expected_rules |-> {"Idgham with Ghunnah"}],
       [text |-> IdghamNoGhunnahExample,
        expected_rules |-> {"Idgham without Ghunnah"}],
       [text |-> QalqalahExample, expected_rules |-> {"Qalqalah"}],
       [text |-> MaddMuttasilExample,
        expected_rules |-> {"Madd Al-Muttasil", "Madd Al-Munfasil"}],
       [text |-> WaqfExample, expected_rules |-> {"Waqf (Stopping)"}] >>

TestTexts == {TajweedTestCases[k].text : k \in 1..Len(TajweedTestCases)}

InitTajweed ==
    /\ store = <<>>
    /\ now = <<0, 0>>
    /\ proc = [p \in Procs |-> IdleProc]
    /\ scenario = 0
    /\ due = <<>>
    /\ dueUser = 0
    /\ AuthIdle
    /\ pitch = PitchIdle
    /\ audio = AudioIdle
    /\ \E t \in SeqsUpTo(Letters, MaxTextLen) \cup TestTexts :
          tajweed = [pc |-> "text", text |-> t]

NextTajweed == ValidateText

SpecTajweed == InitTajweed /\ [][NextTajweed]_vars

-----------------------------------------------------------------------------
(* Feedback summaries.  A recording is given by the pitch contours of its   *)
(* 5-second segments; the whole-file contour is their concatenation.  The  *)
(* cents and note fields of an item need logarithms and are left out.      *)

MaxSegments == 2
SegmentFrames == 2
SegmentSeconds == 5

SummaryFreqs == {0, 430, 440, 450}
SummaryRefFreq == 440
SummaryThresholds == {0 - 1, 5}

RECURSIVE JoinContours(_)
JoinContours(segments) ==
    IF segments = <<>> THEN <<>>
    ELSE Head(segments) \o JoinContours(Tail(segments))

FreqDiffs(feedback_list) ==
    [k \in 1..Len(feedback_list) |-> feedback_list[k].freq_diff]

\* feedback.py lines 88-93
MostCommonIssue(high_pitch_count, low_pitch_count) ==
    IF high_pitch_count > low_pitch_count THEN "Singing too high"
    ELSE IF low_pitch_count > high_pitch_count THEN "Singing too low"
    ELSE "Mixed pitch issues"

\* variant: the share of the items that lie within the 50 Hz threshold
SummaryAccuracy_within_threshold(feedback_list) ==
    (CountWithinStatsThreshold(FreqDiffs(feedback_list)) * 100)
        \div Max(Len(feedback_list), 1)

\* feedback.py lines 96-97: total_frames is the length of the list itself
SummaryAccuracy(feedback_list) ==
    LET total_frames == Len(feedback_list)
    IN Max(0, 100 - (Len(feedback_list) * 100) \div Max(total_frames, 1))

get_summary_statistics(feedback_list) ==
    IF feedback_list = <<>>
    THEN [total_differences |-> 0,
          average_deviation_hz |-> <<0, 1>>,
          max_deviation_hz |-> 0,
          most_common_issue |-> "None",
          accuracy_percentage |-> 100,
          high_pitch_count |-> 0,
          low_pitch_count |-> 0]
    ELSE [total_differences |-> Len(feedback_list),
          average_deviation_hz |->
              <<SumAbs(FreqDiffs(feedback_list)), Len(feedback_list)>>,
          max_deviation_hz |-> MaxAbs(FreqDiffs(feedback_list)),
          most_common_issue |->
              MostCommonIssue(CountAbove(FreqDiffs(feedback_list)),
                              CountBelow(FreqDiffs(feedback_list))),
          accuracy_percentage |-> SummaryAccuracy(feedback_list),
          high_pitch_count |-> CountAbove(FreqDiffs(feedback_list)),
          low_pitch_count |-> CountBelow(FreqDiffs(feedback_list))]

\* analyze_5second_segments lines 414-447 from segment i (0-based): only the
\* segments with reported differences are kept
RECURSIVE SegmentsWithDifferencesFrom(_, _, _, _, _, _)
SegmentsWithDifferencesFrom(i, user_segments, ref_segments, hop_length, sr, threshold) ==
    IF i >= Min(Len(user_segments), Len(ref_segments)) THEN <<>>
    ELSE LET segment_differences ==
                 analyze_segment_pitch_differences(user_segments[i + 1],
                     ref_segments[i + 1], hop_length, sr, threshold,
                     i * SegmentSeconds)
             segment_stats ==
                 calculate_segment_statistics(user_segments[i + 1],
                     ref_segments[i + 1], hop_length, sr)
             rest == SegmentsWithDifferencesFrom(i + 1, user_segments,
                         ref_segments, hop_length, sr, threshold)
         IN IF segment_differences # <<>>
            THEN <<[segment_id |-> i,
                    start_time |-> i * SegmentSeconds,
                    end_time |-> (i + 1) * SegmentSeconds,
                    differences |-> segment_differences,
                    statistics |-> segment_stats]>> \o rest
            ELSE rest

analyze_5second_segments(user_segments, ref_segments, hop_length, sr, threshold) ==
    SegmentsWithDifferencesFrom(0, user_segments, ref_segments, hop_length, sr,
                                threshold)

RECURSIVE SumField(_, _)
SumField(segments_data, field) ==
    IF segments_data = <<>> THEN 0
    ELSE Head(segments_data).statistics[field]
            + SumField(Tail(segments_data), field)

FracAdd(a, b) == <<a[1] * b[2] + b[1] * a[2], a[2] * b[2]>>

RECURSIVE TotalDeviation(_)
TotalDeviation(segments_data) ==
    IF segments_data = <<>> THEN <<0, 1>>
    ELSE FracAdd(Head(segments_data).statistics.average_deviation_hz,
                 TotalDeviation(Tail(segments_data)))

HasDirection(differences, direction) ==
    \E k \in 1..Len(differences) : differences[k].direction = direction

\* lines 607-636: the detail record of one segment
SegmentDetail(segment) ==
    [segment_id |-> segment.segment_id,
     issues_count |-> Len(segment.differences),
     main_issues |->
         (IF HasDirection(segment.differences, "higher")
          THEN <<"Too high">> ELSE <<>>)
         \o (IF HasDirection(segment.differences, "lower")
             THEN <<"Too low">> ELSE <<>>)]

\* lines 640-641: the stable descending sort puts first the earliest segment
\* of the largest average deviation
WorstSegment(segments_data) ==
    CHOOSE k \in 1..Len(segments_data) :
        /\ \A j \in 1..Len(segments_data) :
              ~FracLess(segments_data[k].statistics.average_deviation_hz,
                        segments_data[j].statistics.average_deviation_hz)
        /\ \A j \in 1..(k - 1) :
              FracLess(segments_data[j].statistics.average_deviation_hz,
                       segments_data[k].statistics.average_deviation_hz)

\* lines 646-651
OverallSummary(total_deviation, n) ==
    IF FracLess(total_deviation, <<30 * n, 1>>) THEN "good"
    ELSE IF FracLess(total_deviation, <<60 * n, 1>>) THEN "moderate"
    ELSE "significant"

\* lines 654-657: the comparison has two outcomes only
OverallTendency(total_high_pitch, total_low_pitch) ==
    IF total_high_pitch > total_low_pitch THEN "higher" ELSE "lower"

generate_segment_feedback(segments_data) ==
    IF segments_data = <<>>
    THEN [total_segments |-> 0, segments_with_issues |-> 0,
          overall_summary |-> "excellent", segment_details |-> <<>>,
          recommendations |-> <<>>]
    ELSE [total_segments |-> Len(segments_data),
          segments_with_issues |-> Len(segments_data),
          overall_summary |->
              OverallSummary(TotalDeviation(segments_data), Len(segments_data)),
          segment_details |->
              [k \in 1..Len(segments_data) |-> SegmentDetail(segments_data[k])],
          recommendations |->
              <<[kind |-> "tendency",
                 value |-> OverallTendency(
                              SumField(segments_data, "high_pitch_count"),
                              SumField(segments_data, "low_pitch_count"))],
                [kind |-> "focus",
                 value |-> segments_data[WorstSegment(segments_data)].segment_id],
                [kind |-> "practice", value |-> 0],
                [kind |-> "listen", value |-> 0]>>]

ContourInput(user_segments, threshold) ==
    [pc |-> "contours",
     user_segments |-> user_segments,
     ref_segments |->
         [k \in 1..Len(user_segments) |->
             [f \in 1..Len(user_segments[k]) |-> SummaryRefFreq]],
     threshold |-> threshold]

\* generate_detailed_feedback on the whole-file contours
GenerateFeedbackList ==
    /\ pitch.pc = "contours"
    /\ pitch' = [pc |-> "feedback_list",
                 user_segments |-> pitch.user_segments,
                 ref_segments |-> pitch.ref_segments,
                 threshold |-> pitch.threshold,
                 feedback_list |->
                     analyze_pitch_differences(
                         JoinContours(pitch.user_segments),
                         JoinContours(pitch.ref_segments),
                         HopLength, SampleRate, pitch.threshold)]
    /\ UNCHANGED <<audio, tajweed>>
    /\ UNCHANGED schedVars
    /\ UNCHANGED authVars

GetSummaryStatistics ==
    /\ pitch.pc = "feedback_list"
    /\ pitch' = [pc |-> "summary",
                 user_segments |-> pitch.user_segments,
                 ref_segments |-> pitch.ref_segments,
                 threshold |-> pitch.threshold,
                 feedback_list |-> pitch.feedback_list,
                 summary |-> get_summary_statistics(pitch.feedback_list)]
    /\ UNCHANGED <<audio, tajweed>>
    /\ UNCHANGED schedVars
    /\ UNCHANGED authVars

AnalyzeSegments ==
    /\ pitch.pc = "contours"
    /\ pitch' = [pc |-> "segments",
                 user_segments |-> pitch.user_segments,
                 ref_segments |-> pitch.ref_segments,
                 threshold |-> pitch.threshold,
                 segments_data |->
                     analyze_5second_segments(pitch.user_segments,
                         pitch.ref_segments, HopLength, SampleRate,
                         pitch.threshold)]
    /\ UNCHANGED <<audio, tajweed>>
    /\ UNCHANGED schedVars
    /\ UNCHANGED authVars

GenerateSegmentFeedback ==
    /\ pitch.pc = "segments"
    /\ pitch' = [pc |-> "segment_feedback",
                 user_segments |-> pitch.user_segments,
                 ref_segments |-> pitch.ref_segments,
                 threshold |-> pitch.threshold,
                 segments_data |-> pitch.segments_data,
                 feedback |-> generate_segment_feedback(pitch.segments_data)]
    /\ UNCHANGED <<audio, tajweed>>
    /\ UNCHANGED schedVars
    /\ UNCHANGED authVars

InitSummary ==
    /\ store = <<>>
    /\ now = <<0, 0>>
    /\ proc = [p \in Procs |-> IdleProc]
    /\ scenario = 0
    /\ due = <<>>
    /\ dueUser = 0
    /\ AuthIdle
    /\ audio = AudioIdle
    /\ tajweed = TajweedIdle
    /\ \E segs \in SeqsUpTo(SeqsUpTo(SummaryFreqs, SegmentFrames), MaxSegments),
          t \in SummaryThresholds :
          pitch = ContourInput(segs, t)

NextSummary ==
    \/ GenerateFeedbackList
    \/ GetSummaryStatistics
    \/ AnalyzeSegments
    \/ GenerateSegmentFeedback

SpecSummary == InitSummary /\ [][NextSummary]_vars

-----------------------------------------------------------------------------
(* Account system (auth_system.py).  users and reset_tokens are the tables  *)
(* in rowid order.  Every call opens its own connection; a SELECT runs     *)
(* outside a transaction and the writes of a call are committed together,  *)
(* so a call is one step per SELECT and one per group of writes.           *)

MaxTokens == 2

Emails == {"e1", "e2"}
Passwords == {"pw1", "pw2"}
Salts == {"s1", "s2"}
TokenLifetimeDays == 1

\* pbkdf2_hmac of the password under the salt: equal exactly for equal inputs
hash_password(password, salt) == <<"pbkdf2", password, salt>>

\* variant: the stored salt is ignored and the first salt is used
verify_password_fixed_salt(password, password_hash, salt) ==
    hash_password(password, "s1") = password_hash

verify_password(password, password_hash, salt) ==
    hash_password(password, salt) = password_hash

ByUsername(username) == {i \in 1..Len(users) : users[i].username = username}
ByEmail(email) == {i \in 1..Len(users) : users[i].email = email}
ByToken(token) == {i \in 1..Len(reset_tokens) : reset_tokens[i].token = token}

\* variant: the users table declares no UNIQUE column
UsersUnique_none(username, email) == TRUE

\* username TEXT UNIQUE, email TEXT UNIQUE: the INSERT is accepted
UsersUnique(username, email) ==
    ByUsername(username) = {} /\ ByEmail(email) = {}

\* register_user lines 121-127: the SELECT for the username or the email
RegisterUser_Select(p, username, email, password) ==
    /\ session[p].pc = "idle"
    /\ session' = [session EXCEPT ![p] =
           [IdleSession EXCEPT
               !.pc = IF ByUsername(username) \cup ByEmail(email) # {}
                      THEN "done" ELSE "insert",
               !.op = "register", !.username = username, !.email = email,
               !.password = password, !.ok = FALSE]]
    /\ UNCHANGED <<users, reset_tokens, lastPassword>>
    /\ UNCHANGED schedVars
    /\ UNCHANGED analysisVars

\* lines 129-143: hash with a fresh salt, INSERT, commit; an IntegrityError
\* is caught and returned as a failure
RegisterUser_Insert(p, salt) ==
    /\ session[p].pc = "insert"
    /\ IF UsersUnique(session[p].username, session[p].email)
       THEN /\ users' = Append(users,
                   [id |-> Len(users) + 1,
                    username |-> session[p].username,
                    email |-> session[p].email,
                    password_hash |-> hash_password(session[p].password, salt),
                    salt |-> salt,
                    is_active |-> 1])
            /\ lastPassword' =
                   [lastPassword EXCEPT ![session[p].username] = session[p].password]
            /\ session' = [session EXCEPT ![p].pc = "done", ![p].ok = TRUE]
       ELSE /\ session' = [session EXCEPT ![p].pc = "done", ![p].ok = FALSE]
            /\ UNCHANGED <<users, lastPassword>>
    /\ UNCHANGED reset_tokens
    /\ UNCHANGED schedVars
    /\ UNCHANGED analysisVars

\* login_user lines 147-172
LoginUser(p, username, password) ==
    /\ session[p].pc = "idle"
    /\ LET found == {i \in ByUsername(username) : users[i].is_active = 1}
           row == users[CHOOSE i \in found : TRUE]
       IN session' = [session EXCEPT ![p] =
              [IdleSession EXCEPT
                  !.pc = "done", !.op = "login", !.username = username,
                  !.password = password,
                  !.user_id = IF found = {} THEN 0 ELSE row.id,
                  !.ok = IF found = {} THEN FALSE
                         ELSE verify_password(password, row.password_hash,
                                              row.salt)]]
    /\ UNCHANGED <<users, reset_tokens, lastPassword>>
    /\ UNCHANGED schedVars
    /\ UNCHANGED analysisVars

\* create_reset_token lines 176-205; the random token is a value no stored
\* token has
CreateResetToken(p, email) ==
    /\ session[p].pc = "idle"
    /\ Len(reset_tokens) < MaxTokens
    /\ LET found == {i \in ByEmail(email) : users[i].is_active = 1}
           row == users[CHOOSE i \in found : TRUE]
           token == Len(reset_tokens) + 1
       IN IF found = {}
          THEN /\ session' = [session EXCEPT ![p] =
                      [IdleSession EXCEPT !.pc = "done", !.op = "create_token",
                                          !.email = email, !.ok = FALSE]]
               /\ UNCHANGED reset_tokens
          ELSE /\ reset_tokens' = Append(reset_tokens,
                      [user_id |-> row.id, token |-> token,
                       expires_at |-> AddDays(now, TokenLifetimeDays),
                       used |-> 0])
               /\ session' = [session EXCEPT ![p] =
                      [IdleSession EXCEPT !.pc = "done", !.op = "create_token",
                                          !.email = email, !.token = token,
                                          !.username = row.username,
                                          !.user_id = row.id, !.ok = TRUE]]
    /\ UNCHANGED <<users, lastPassword>>
    /\ UNCHANGED schedVars
    /\ UNCHANGED analysisVars

\* reset_password lines 213-225: the SELECT of the token and the test for a
\* used or expired token
ResetPassword_Select(p, token, new_password) ==
    /\ session[p].pc = "idle"
    /\ LET found == ByToken(token)
           row == reset_tokens[CHOOSE i \in found : TRUE]
           usable == /\ found # {}
                     /\ ~(row.used = 1 \/ TsLess(row.expires_at, now))
       IN session' = [session EXCEPT ![p] =
              [IdleSession EXCEPT
                  !.pc = IF usable THEN "update" ELSE "done",
                  !.op = "reset", !.token = token, !.password = new_password,
                  !.user_id = IF found = {} THEN 0 ELSE row.user_id,
                  !.ok = FALSE]]
    /\ UNCHANGED <<users, reset_tokens, lastPassword>>
    /\ UNCHANGED schedVars
    /\ UNCHANGED analysisVars

\* lines 227-243: hash with a fresh salt, UPDATE users, UPDATE reset_tokens,
\* commit
ResetPassword_Update(p, salt) ==
    /\ session[p].pc = "update"
    /\ users' = [i \in 1..Len(users) |->
                    IF users[i].id = session[p].user_id
                    THEN [users[i] EXCEPT
                             !.password_hash =
                                 hash_password(session[p].password, salt),
                             !.salt = salt]
                    ELSE users[i]]
    /\ reset_tokens' = [i \in 1..Len(reset_tokens) |->
                           IF reset_tokens[i].token = session[p].token
                           THEN [reset_tokens[i] EXCEPT !.used = 1]
                           ELSE reset_tokens[i]]
    /\ lastPassword' =
           [u \in Usernames |->
               IF \E i \in ByUsername(u) : users[i].id = session[p].user_id
               THEN session[p].password ELSE lastPassword[u]]
    /\ session' = [session EXCEPT ![p].pc = "done", ![p].ok = TRUE]
    /\ UNCHANGED schedVars
    /\ UNCHANGED analysisVars

\* the caller takes the result and may call again
AuthReturn(p) ==
    /\ session[p].pc = "done"
    /\ session' = [session EXCEPT ![p] = IdleSession]
    /\ UNCHANGED <<users, reset_tokens, lastPassword>>
    /\ UNCHANGED schedVars
    /\ UNCHANGED analysisVars

\* a database just created, or one that holds an account and a reset token
\* issued for it a day before; the token expires at <<1, 0>> and the clock
\* stands at that instant or after it
RegisteredUser ==
    [id |-> 1, username |-> "u1", email |-> "e1",
     password_hash |-> hash_password("pw1", "s1"), salt |-> "s1",
     is_active |-> 1]

IssuedToken(used) ==
    [user_id |-> 1, token |-> 1,
     expires_at |-> AddDays(<<0, 0>>, TokenLifetimeDays), used |-> used]

InitAuth ==
    /\ store = <<>>
    /\ proc = [p \in Procs |-> IdleProc]
    /\ scenario = 0
    /\ due = <<>>
    /\ dueUser = 0
    /\ AnalysisIdle
    /\ session = [p \in Procs |-> IdleSession]
    /\ \/ /\ now = <<0, 0>>
          /\ users = <<>>
          /\ reset_tokens = <<>>
          /\ lastPassword = [u \in Usernames |-> ""]
       \/ /\ now \in {<<1, 0>>, <<1, 1>>}
          /\ users = <<RegisteredUser>>
          /\ \E used \in {0, 1} : reset_tokens = <<IssuedToken(used)>>
          /\ lastPassword = [u \in Usernames |->
                                IF u = "u1" THEN "pw1" ELSE ""]

\* one caller: the calls follow one another
Caller == "p1"

NextAuth ==
    \/ \E u \in Usernames, e \in Emails, pw \in Passwords :
          RegisterUser_Select(Caller, u, e, pw)
    \/ \E salt \in Salts : RegisterUser_Insert(Caller, salt)
    \/ \E u \in Usernames, pw \in Passwords : LoginUser(Caller, u, pw)
    \/ \E e \in Emails : CreateResetToken(Caller, e)
    \/ \E t \in 1..MaxTokens, pw \in Passwords :
          ResetPassword_Select(Caller, t, pw)
    \/ \E salt \in Salts : ResetPassword_Update(Caller, salt)
    \/ AuthReturn(Caller)

SpecAuth == InitAuth /\ [][NextAuth]_vars

\* two callers whose registrations and password resets interleave
NextAuthRace ==
    \/ \E p \in Procs, u \in Usernames, e \in Emails, pw \in Passwords :
          RegisterUser_Select(p, u, e, pw)
    \/ \E p \in Procs, salt \in Salts : RegisterUser_Insert(p, salt)
    \/ \E p \in Procs, t \in 1..MaxTokens, pw \in Passwords :
          ResetPassword_Select(p, t, pw)
    \/ \E p \in Procs, salt \in Salts : ResetPassword_Update(p, salt)
    \/ \E p \in Procs : AuthReturn(p)

SpecAuthRace == InitAuth /\ [][NextAuthRace]_vars

-----------------------------------------------------------------------------
(* Properties *)

Done(p) == proc[p].pc = "done"
Computed(p) == proc[p].pc = "computed"

\* interval, ease factor, repetitions and streak of a stored row
Persisted(row) ==
    [interval |-> row.interval, ease_factor |-> row.ease_factor,
     repetitions |-> row.repetitions, streak |-> row.streak]

\* the state record_review starts from when the key has no row
Fresh == [interval |-> 0, ease_factor |-> InitialEf, repetitions |-> 0, streak |-> 0]

\* one review applied to a state: _sm2 and the streak update
Review(s, quality) ==
    LET r == _sm2(s.ease_factor, s.interval, s.repetitions, quality)
    IN [interval |-> r.interval, ease_factor |-> r.ease_factor,
        repetitions |-> r.repetitions, streak |-> review_streak(s.streak, quality)]

\* the call of p found no row for its key
ReadNoRow(p) == proc[p].interval = 0 /\ proc[p].repetitions = 0

\* round(n / d) as Python rounds: to nearest, halves to even
RoundDiv(n, d) ==
    LET q == n \div d
        r == n % d
    IN IF 2 * r < d THEN q
       ELSE IF 2 * r > d THEN q + 1
       ELSE IF q % 2 = 0 THEN q ELSE q + 1

\* C1: after seven consecutive quality-5 reviews of a never-reviewed verse
\* the stored row is mastered with streak 7; after one more review with
\* quality 2 it has streak 0, status learning, repetitions 0 and interval 1.
C1_SevenFivesThenTwo ==
    /\ scenario = 7 =>
          /\ RowsOf(store, TrackedKey) # {}
          /\ \A i \in RowsOf(store, TrackedKey) :
                store[i].status = "mastered" /\ store[i].streak = 7
    /\ scenario = 8 =>
          /\ RowsOf(store, TrackedKey) # {}
          /\ \A i \in RowsOf(store, TrackedKey) :
                /\ store[i].streak = 0 /\ store[i].status = "learning"
                /\ store[i].repetitions = 0 /\ store[i].interval = 1

\* C2: when two reviews of the same key that both started from the same
\* (never-reviewed) state have finished, the stored state is the result of
\* applying the two reviews one after the other in some order.
C2_ReviewsSerialized ==
    \A p \in Procs : \A o \in Procs \ {p} :
        (Done(p) /\ Done(o) /\ ProcKey(p) = ProcKey(o)
            /\ ReadNoRow(p) /\ ReadNoRow(o)) =>
        /\ RowsOf(store, ProcKey(p)) # {}
        /\ \A i \in RowsOf(store, ProcKey(p)) :
              Persisted(store[i]) \in
                  {Review(Review(Fresh, proc[p].quality), proc[o].quality),
                   Review(Review(Fresh, proc[o].quality), proc[p].quality)}

\* C3: for quality 1..5 a review gives repetitions 0 and interval 1 when
\* quality < 3, and otherwise interval 1, 6 or round(interval * easeFactor)
\* for repetitions 0, 1 or more, with repetitions incremented.
C3_IntervalRounded ==
    \A p \in Procs :
        (Computed(p) /\ proc[p].quality \in 1..5) =>
        LET r == proc[p]
        IN IF r.quality < 3
           THEN r.new_reps = 0 /\ r.new_interval = 1
           ELSE /\ r.new_reps = r.repetitions + 1
                /\ r.new_interval =
                      IF r.repetitions = 0 THEN 1
                      ELSE IF r.repetitions = 1 THEN 6
                      ELSE RoundDiv(r.interval * r.ease_factor, 100)

\* the ease-factor change per quality, in hundredths
EfDelta(quality) ==
    CASE quality = 5 -> 10
      [] quality = 4 -> 0
      [] quality = 3 -> 0 - 14
      [] quality = 2 -> 0 - 32
      [] quality = 1 -> 0 - 54

\* C4: for every quality 1..5, in both branches, the new ease factor is the
\* pre-review ease factor plus 0.10, 0, -0.14, -0.32, -0.54 for quality
\* 5, 4, 3, 2, 1, floored at 1.3.
C4_EaseFactorAlwaysRecomputed ==
    \A p \in Procs :
        (Computed(p) /\ proc[p].quality \in 1..5) =>
        proc[p].new_ef = Max(130, proc[p].ease_factor + EfDelta(proc[p].quality))

\* a failed review (quality < 3) lowered an ease factor that stays above the floor
C4_Witness ==
    \E p \in Procs :
        /\ Computed(p) /\ proc[p].quality = 2
        /\ proc[p].new_ef = proc[p].ease_factor - 32
        /\ proc[p].new_ef > 130

\* C5: after a review with quality 1..5 the key has a stored state, and it
\* has interval >= 1, easeFactor >= 1.3, repetitions >= 0 and streak >= 0.
C5_PersistedStateInRange ==
    \A p \in Procs :
        (Done(p) /\ proc[p].quality \in 1..5) =>
        /\ RowsOf(store, ProcKey(p)) # {}
        /\ \A i \in RowsOf(store, ProcKey(p)) :
              /\ store[i].interval >= 1 /\ store[i].ease_factor >= 130
              /\ store[i].repetitions >= 0 /\ store[i].streak >= 0

\* C6: a review adds 1 to the streak when quality >= 4 and resets it to 0
\* otherwise; the resulting status is mastered exactly when the resulting
\* streak is >= 7, and it is learning after any review with quality < 4.
C6_StreakAndStatus ==
    \A p \in Procs :
        (Computed(p) /\ proc[p].quality \in 1..5) =>
        LET r == proc[p]
            old == IF r.streak = Null THEN 0 ELSE r.streak
        IN /\ r.new_streak = IF r.quality >= 4 THEN old + 1 ELSE 0
           /\ (r.status = "mastered") <=> (r.new_streak >= 7)
           /\ r.status \in {"mastered", "learning"}
           /\ r.quality < 4 => r.status = "learning"

\* the seventh good review in a row makes the verse mastered
C6_Witness ==
    \E p \in Procs :
        /\ Computed(p) /\ proc[p].quality \in 4..5
        /\ proc[p].streak = 6 /\ proc[p].new_streak = 7
        /\ proc[p].status = "mastered"

\* C7: a review whose quality is outside 1..5 ends as an invalid-input error.
C7_InvalidQualityRejected ==
    \A p \in Procs :
        (Done(p) /\ proc[p].quality \notin 1..5) =>
        proc[p].outcome = "InvalidInput"

\* number of positions of a sequence holding v
Count(seq, v) == Cardinality({i \in 1..Len(seq) : seq[i] = v})

\* C8: the query returns exactly the rows of the user whose next_review is
\* null or dated today or earlier, in ascending next_review order, nulls first.
C8_DueExactAndOrdered ==
    dueUser # 0 =>
    /\ \A k \in 1..Len(store) :
          Count(due, DueColumns(store[k])) =
              Cardinality({i \in 1..Len(store) :
                  /\ store[i].user_id = dueUser
                  /\ DueColumns(store[i]) = DueColumns(store[k])
                  /\ (store[i].next_review = NullTs
                        \/ store[i].next_review[1] <= now[1])})
    /\ Len(due) =
          Cardinality({i \in 1..Len(store) :
              /\ store[i].user_id = dueUser
              /\ (store[i].next_review = NullTs
                    \/ store[i].next_review[1] <= now[1])})
    /\ \A i \in 1..Len(due), j \in 1..Len(due) :
          i < j => ~TsLess(due[j][3], due[i][3])
    /\ \A i \in 1..Len(due), j \in 1..Len(due) :
          (i < j /\ due[j][3] = NullTs) => due[i][3] = NullTs

\* a never-scheduled verse comes before one due earlier today, and a verse of
\* the same user scheduled for a later day is left out
C8_Witness ==
    /\ dueUser # 0
    /\ Len(due) = 2
    /\ due[1][3] = NullTs
    /\ due[2][3] # NullTs /\ due[2][3][1] = now[1]
    /\ \E i \in 1..Len(store) :
          /\ store[i].user_id = dueUser /\ store[i].next_review # NullTs
          /\ store[i].next_review[1] > now[1]

\* C9: once a review of a key has finished, the table holds exactly one row
\* for that key.
C9_OneRowPerReviewedKey ==
    \A p \in Procs :
        Done(p) => Cardinality(RowsOf(store, ProcKey(p))) = 1

Frames(differences) ==
    [k \in 1..Len(differences) |->
        differences[k].timestamp[1] \div pitch.hop_length]

Scored == pitch.pc \in {"segment", "feedback"}

\* C11 as stated: on the example contours with threshold 10 the scorer
\* reports exactly the frames 1, 2 and 3, and the statistics count 2 higher
\* and 1 lower frame.
C11_ExampleThreeDeviations ==
    (Scored /\ IsExample) =>
        /\ Frames(pitch.differences) = <<1, 2, 3>>
        /\ pitch.pc = "segment" =>
              /\ pitch.statistics.high_pitch_count = 2
              /\ pitch.statistics.low_pitch_count = 1

\* C11 (amended): on the example contours with threshold 10 the scorer
\* reports exactly one deviation, frame 3 (460 against 440); the deviations
\* of exactly 10 Hz at frames 1 and 2 are not reported; the segment
\* statistics count 2 higher and 1 lower frame.
C11_ExampleOneDeviation ==
    (Scored /\ IsExample) =>
        /\ Frames(pitch.differences) = <<3>>
        /\ pitch.differences[1].freq_diff = 20
        /\ pitch.pc = "segment" =>
              /\ pitch.statistics.high_pitch_count = 2
              /\ pitch.statistics.low_pitch_count = 1

\* the example has been scored by the segment analysis
C11_Witness ==
    /\ pitch.pc = "segment" /\ IsExample
    /\ Len(pitch.differences) = 1
    /\ pitch.statistics.valid_frames = 5

\* the frames (0-based) that must be reported
ExpectedFrames ==
    {i - 1 : i \in {j \in 1..Min(Len(pitch.user_pitch), Len(pitch.ref_pitch)) :
                       /\ pitch.user_pitch[j] > 0 /\ pitch.ref_pitch[j] > 0
                       /\ \/ pitch.user_pitch[j] - pitch.ref_pitch[j] > pitch.threshold
                          \/ pitch.ref_pitch[j] - pitch.user_pitch[j] > pitch.threshold}}

\* C12: a deviation is reported for frame i exactly when i is below the
\* length of both contours, both frequencies are > 0 and the absolute
\* difference is strictly above the threshold; deviations come in increasing
\* frame order and carry the frequencies of their frame.
C12_DeviationIffVoicedAndAbove ==
    Scored =>
        /\ {Frames(pitch.differences)[k] : k \in 1..Len(pitch.differences)}
              = ExpectedFrames
        /\ \A k \in 1..Len(pitch.differences), m \in 1..Len(pitch.differences) :
              k < m => Frames(pitch.differences)[k] < Frames(pitch.differences)[m]
        /\ \A k \in 1..Len(pitch.differences) :
              LET d == pitch.differences[k]
                  i == Frames(pitch.differences)[k] + 1
              IN /\ d.user_freq = pitch.user_pitch[i]
                 /\ d.ref_freq = pitch.ref_pitch[i]
                 /\ d.freq_diff = d.user_freq - d.ref_freq

\* contours of different length with a deviation equal to the threshold that
\* is skipped, an unvoiced frame that is skipped and a frame that is reported
C12_Witness ==
    /\ pitch.pc = "segment"
    /\ Len(pitch.user_pitch) > Len(pitch.ref_pitch)
    /\ Len(pitch.differences) = 1
    /\ \E i \in 1..Len(pitch.ref_pitch) :
          /\ pitch.user_pitch[i] > 0 /\ pitch.ref_pitch[i] > 0
          /\ pitch.user_pitch[i] - pitch.ref_pitch[i] = pitch.threshold
    /\ \E i \in 1..Len(pitch.user_pitch) : pitch.user_pitch[i] < 0

VoicedPairs ==
    {i \in 1..Min(Len(pitch.user_pitch), Len(pitch.ref_pitch)) :
        pitch.user_pitch[i] > 0 /\ pitch.ref_pitch[i] > 0}

AccuratePairs ==
    {i \in VoicedPairs :
        /\ pitch.user_pitch[i] - pitch.ref_pitch[i] <= 50
        /\ pitch.ref_pitch[i] - pitch.user_pitch[i] <= 50}

C14_DifferencesImplyInaccuracy ==
    (pitch.pc = "segment" /\ pitch.differences # <<>>) =>
        /\ FracLess(<<0, 1>>, pitch.statistics.average_deviation_hz)
        /\ FracLess(pitch.statistics.accuracy_percentage, <<100, 1>>)

\* the (0-based) index of the first sample whose absolute value exceeds the
\* threshold, 0 when there is none
FirstAbove(y, threshold) ==
    LET above == {i \in 1..Len(y) : y[i] > threshold \/ 0 - y[i] > threshold}
    IN IF above = {} THEN 0
       ELSE (CHOOSE i \in above : \A j \in above : i <= j) - 1

\* C15: aligning the user signal with the already aligned reference, with
\* the same threshold, gives offset 0.
C15_AlignIdempotent ==
    audio.pc = "realigned" => audio.second.offset = 0

\* the first alignment moved the reference and the user signal starts with
\* silence
C15_Witness ==
    /\ audio.pc = "realigned"
    /\ audio.first.offset > 0
    /\ audio.first.user_start > 0
    /\ audio.second.offset = 0

\* C16: the onsets are the first samples above the threshold (0 when none),
\* the offset is max(0, referenceOnset - userOnset) and the aligned reference
\* is the reference from offset to offset + len(user).
C16_OnsetOffsetSlice ==
    audio.pc = "aligned" =>
        LET r == audio.first
            want == IF FirstAbove(audio.ref_y, audio.threshold)
                          > FirstAbove(audio.user_y, audio.threshold)
                    THEN FirstAbove(audio.ref_y, audio.threshold)
                            - FirstAbove(audio.user_y, audio.threshold)
                    ELSE 0
        IN /\ r.user_start = FirstAbove(audio.user_y, audio.threshold)
           /\ r.ref_start = FirstAbove(audio.ref_y, audio.threshold)
           /\ r.offset = want
           /\ \A k \in 1..Len(audio.user_y) :
                 IF want + k <= Len(audio.ref_y)
                 THEN /\ k <= Len(r.aligned_ref_y)
                      /\ r.aligned_ref_y[k] = audio.ref_y[want + k]
                 ELSE k > Len(r.aligned_ref_y)
           /\ Len(r.aligned_ref_y) <= Len(audio.user_y)

\* a reference with a sample equal to the threshold before its onset, cut
\* short by the end of the reference
C16_Witness ==
    /\ audio.pc = "aligned"
    /\ audio.first.offset > 0
    /\ \E i \in 1..audio.first.ref_start : audio.ref_y[i] = audio.threshold
    /\ Len(audio.first.aligned_ref_y) < Len(audio.user_y)
    /\ Len(audio.first.aligned_ref_y) > 0

\* C17: aligning with an empty user or reference signal raises no error and
\* returns an aligned reference of length 0.
C17_EmptySignalsAlign ==
    (audio.pc \in {"aligned", "error"}
        /\ (Len(audio.user_y) = 0 \/ Len(audio.ref_y) = 0)) =>
        /\ audio.pc = "aligned"
        /\ Len(audio.first.aligned_ref_y) = 0

RECURSIVE Concat(_)
Concat(seqs) == IF seqs = <<>> THEN <<>> ELSE Head(seqs) \o Concat(Tail(seqs))

\* C18: the windows are consecutive and in order, all but the last have
\* round(intervalSeconds * sampleRate) samples, the last has the remainder
\* (or a full window when it divides evenly), none is dropped, and the
\* lengths sum to L.
C18_SegmentsOfRoundedLength ==
    audio.pc = "segmented" =>
        LET spi == RoundDiv(audio.interval_num * audio.sr, IntervalDen)
            L == Len(audio.y)
            n == Len(audio.segments)
        IN /\ Concat(audio.segments) = audio.y
           /\ \A k \in 1..(n - 1) : Len(audio.segments[k]) = spi
           /\ n > 0 => Len(audio.segments[n]) =
                          IF L % spi = 0 THEN spi ELSE L % spi
           /\ L > 0 => n > 0

\* C19: validating the Iqlab example text (first word ends in nun, second
\* word starts with ba) reports exactly one violation, of the rule "Iqlab".
C19_IqlabExampleOneViolation ==
    (tajweed.pc = "validated" /\ tajweed.text = IqlabExample) =>
        /\ Len(tajweed.result.errors) = 1
        /\ tajweed.result.errors[1].rule = "Iqlab"

SeverityCount(errors, severity) ==
    Cardinality({k \in 1..Len(errors) : errors[k].severity = severity})

\* C20: score = max(0, 100 - 10*H - 5*M - 2*L) over the reported violations,
\* it lies in [0, 100], and it is 100 exactly when nothing is reported.
C20_ScoreFormula ==
    tajweed.pc = "validated" =>
        LET errors == tajweed.result.errors
            raw == 100 - 10 * SeverityCount(errors, "high")
                       - 5 * SeverityCount(errors, "medium")
                       - 2 * SeverityCount(errors, "low")
        IN /\ tajweed.result.score = IF raw > 0 THEN raw ELSE 0
           /\ tajweed.result.score \in 0..100
           /\ (tajweed.result.score = 100) <=> (errors = <<>>)

\* violations whose deductions exceed 100, clamped to 0
C20_Witness ==
    /\ tajweed.pc = "validated"
    /\ 10 * SeverityCount(tajweed.result.errors, "high")
          + 5 * SeverityCount(tajweed.result.errors, "medium")
          + 2 * SeverityCount(tajweed.result.errors, "low") > 100
    /\ tajweed.result.score = 0

Validated == tajweed.pc = "validated"

\* positions (1-based) of the text where a word starts and where one ends
WordStarts(text) ==
    {p \in 1..Len(text) :
        text[p] # "space" /\ (p = 1 \/ text[p - 1] = "space")}

WordEnds(text) ==
    {p \in 1..Len(text) :
        text[p] # "space" /\ (p = Len(text) \/ text[p + 1] = "space")}

\* <<wordIndex, charIndex>> (0-based) of the non-space character at p
WordCharAt(text, p) ==
    LET starts == {q \in WordStarts(text) : q <= p}
        start == CHOOSE q \in starts : \A o \in starts : o <= q
    IN <<Cardinality(starts) - 1, p - start>>

\* the reported <<wordIndex, charIndex>> of a rule, and how many it reports
ReportedAt(errors, name) ==
    {<<errors[k].word_index, errors[k].char_index>> :
        k \in {j \in 1..Len(errors) : errors[j].rule = name}}

ReportedCount(errors, name) ==
    Cardinality({k \in 1..Len(errors) : errors[k].rule = name})

TriggerPairs(text, rule) ==
    {p \in 1..Len(text) :
        /\ text[p] \in rule.trigger
        /\ p + 1 <= Len(text)
        /\ text[p + 1] # "space"
        /\ text[p + 1] \in rule.followed_by}

C23_ExpectedRulesReported ==
    Validated =>
        \A c \in 1..Len(TajweedTestCases) :
            tajweed.text = TajweedTestCases[c].text =>
                \A name \in TajweedTestCases[c].expected_rules :
                    ReportedCount(tajweed.result.errors, name) >= 1

\* C24: the summary's issue is "too high" when high > low, "too low" when
\* low > high and Mixed when the counts are equal, in the feedback summary
\* and in the overall tendency of the segment feedback alike.
C24_TiesAreMixed ==
    /\ (pitch.pc = "summary" /\ pitch.feedback_list # <<>>) =>
          LET high == pitch.summary.high_pitch_count
              low == pitch.summary.low_pitch_count
          IN pitch.summary.most_common_issue =
                IF high > low THEN "Singing too high"
                ELSE IF low > high THEN "Singing too low"
                ELSE "Mixed pitch issues"
    /\ (pitch.pc = "segment_feedback" /\ pitch.segments_data # <<>>) =>
          LET high == SumField(pitch.segments_data, "high_pitch_count")
              low == SumField(pitch.segments_data, "low_pitch_count")
          IN /\ high > low =>
                   pitch.feedback.recommendations[1].value = "higher"
             /\ low > high =>
                   pitch.feedback.recommendations[1].value = "lower"
             /\ high = low =>
                   pitch.feedback.recommendations[1].value \notin
                       {"higher", "lower"}

C29_IntervalMonotone ==
    \A p \in Procs :
        Computed(p) =>
            LET r == proc[p]
            IN /\ r.quality >= 3 => r.new_interval >= r.interval
               /\ r.new_reps >= 2 => r.new_interval >= 6
               /\ r.new_interval < r.interval =>
                     (r.quality < 3 /\ r.new_interval = 1)
               /\ r.quality < 3 => r.new_interval = 1

\* a third or later passed review in a row lengthens an interval of at least
\* 6 days, with an ease factor that earlier reviews had lowered
C29_Witness ==
    \E p \in Procs :
        /\ Computed(p)
        /\ proc[p].new_reps >= 3
        /\ proc[p].interval >= 6
        /\ proc[p].new_interval > proc[p].interval
        /\ proc[p].ease_factor < InitialEf

\* the query result lists the verse of the key
Returned(result, key) ==
    \E k \in 1..Len(result) : result[k][1] = key[2] /\ result[k][2] = key[3]

\* the call of p is the only one on its key and has finished a review with a
\* quality in 1..5
LastReview(p) ==
    /\ Done(p)
    /\ proc[p].quality \in 1..5
    /\ \A o \in Procs \ {p} : proc[o].pc = "idle" \/ ProcKey(o) # ProcKey(p)

\* C28: a query of the user's due verses made after a review of a verse
\* returns the verse exactly when the current date has reached the review
\* date plus the newly computed interval, so not on the day of the review.
C28_DueAgainAfterInterval ==
    [][\A p \in Procs :
          (LastReview(p) /\ dueUser' = proc[p].user_id
              /\ (due' # due \/ dueUser' # dueUser)) =>
          (Returned(due', ProcKey(p)) <=>
              Date(now) >= Date(proc[p].last_reviewed) + proc[p].new_interval)]_vars

Finished(p, op) == session[p].pc = "done" /\ session[p].op = op

\* C25: a login succeeds exactly when the username is registered and the
\* password is the one most recently set for it, at registration or by the
\* last successful reset.
C25_LoginIffCurrentPassword ==
    Finished(Caller, "login") =>
        (session[Caller].ok <=>
            /\ \E i \in 1..Len(users) :
                  users[i].username = session[Caller].username
            /\ lastPassword[session[Caller].username] = session[Caller].password)

\* after a reset the new password logs in, with a salt other than the first
C25_Witness ==
    /\ Finished(Caller, "login")
    /\ session[Caller].ok
    /\ session[Caller].username = "u1"
    /\ session[Caller].password = "pw2"
    /\ \E i \in 1..Len(users) :
          users[i].username = "u1" /\ users[i].salt = "s2"
    /\ \E k \in 1..Len(reset_tokens) :
          reset_tokens[k].used = 1 /\ reset_tokens[k].user_id = 1
    /\ Len(users) = 2

NoSharedNames(table) ==
    \A i \in 1..Len(table) : \A j \in 1..Len(table) :
        i # j => /\ table[i].username # table[j].username
                 /\ table[i].email # table[j].email

\* C26: a registration whose username or email is already stored fails and
\* adds no user, and no two stored users ever share a username or an email,
\* however the registrations interleave.
C26_NoDuplicateUsers ==
    [][/\ NoSharedNames(users')
       /\ \A p \in Procs :
             (session[p].pc # "done" /\ Finished(p, "register")') =>
                 IF \E i \in 1..Len(users) :
                        \/ users[i].username = session'[p].username
                        \/ users[i].email = session'[p].email
                 THEN ~session'[p].ok /\ users' = users
                 ELSE session'[p].ok /\ Len(users') = Len(users) + 1]_vars

\* a registration that found the names free is refused at its INSERT because
\* another caller stored the username in between
C26_Witness ==
    \E p \in Procs : \E o \in Procs \ {p} :
        /\ Finished(p, "register") /\ ~session[p].ok
        /\ Finished(o, "register") /\ session[o].ok
        /\ session[p].username = session[o].username
        /\ session[p].email # session[o].email
        /\ Len(users) = 1
        /\ reset_tokens = <<>>

\* C27: a reset token is redeemed at most once, also when two resets with
\* the same token interleave, and an expired token is refused.
C27_TokenRedeemedOnce ==
    /\ \A p \in Procs : \A o \in Procs \ {p} :
          ~(/\ Finished(p, "reset") /\ session[p].ok
            /\ Finished(o, "reset") /\ session[o].ok
            /\ session[p].token = session[o].token)
    /\ \A p \in Procs :
          (Finished(p, "reset") /\ session[p].ok) =>
              \A k \in ByToken(session[p].token) :
                  ~TsLess(reset_tokens[k].expires_at, now)

====
